---------------------------- MODULE Spec2Model ----------------------------
(***************************************************************************)
(* Server actions of the car marketplace (src/actions/car-listing.js):     *)
(* getCarFilters, getCars, toggleSavedCar, getCarById and getSavedCars,    *)
(* over the Car, User and UserSavedCar tables, the authentication          *)
(* provider, the demo-mode switch and the demo fixture list.               *)
(*                                                                         *)
(* Every function is async: each await is a point where another request    *)
(* may run, so each is modelled one await at a time.  Spec runs several    *)
(* toggleSavedCar requests side by side; SpecRead runs one retrieval call  *)
(* side by side with a toggleSavedCar request.                             *)
(***************************************************************************)
EXTENDS Integers, Sequences, FiniteSets, TLC

VARIABLES
    demoMode,      \* isDemoMode(): process configuration, fixed after start
    carTable,      \* the Car table: a set of car records
    saved,         \* the UserSavedCar table: rows per <<userId, carId>>
    pc,            \* per request: the await toggleSavedCar is at
    arg,           \* per request: [ident, carId]: the session and the argument
    loc,           \* per request: the locals userId, user, car, existingSave
    out,           \* per request: how the call ended (returned value or thrown error)
    wrote,         \* per request: the call inserted or deleted a row
    inval,         \* per request: revalidatePath("/saved-cars") calls issued
    before,        \* per request: rows of the call's pair when the call started
    clean,         \* per request: no other request wrote the call's pair since it started
    chain,         \* per request: the previous call, when it was for the same pair
    resp           \* the retrieval call: where it is, its locals, and its answer

tvars == <<pc, arg, loc, out, wrote, inval, before, clean, chain>>
vars == <<demoMode, carTable, saved, tvars, resp>>

-----------------------------------------------------------------------------
(* Values *)

\* isDemoMode() of lib/helpers: a function of the process configuration.
isDemoMode == demoMode

Null == "null"
Unset == "undefined"

Procs == {"r1", "r2"}

\* Sessions: no session, two users with an application record, one without.
NoIdent == Null
Idents == {NoIdent, "clerk_1", "clerk_2", "clerk_ghost"}

\* The User table, keyed by clerkUserId.
UserTable == {[id |-> "u1", clerkUserId |-> "clerk_1"],
              [id |-> "u2", clerkUserId |-> "clerk_2"]}
UserIds == {u.id : u \in UserTable}

\* db.user.findUnique({ where: { clerkUserId } })
user_findUnique(clerkUserId) ==
    IF \E u \in UserTable : u.clerkUserId = clerkUserId
    THEN (CHOOSE u \in UserTable : u.clerkUserId = clerkUserId).id
    ELSE Null



\* Rows the Car table may hold.  Prices and creation times are small numbers;
\* two cars share a price, one is free, one is not AVAILABLE.
CarPool ==
    {[id |-> "car_1", make |-> "Honda", model |-> "City", description |-> "city sedan",
      bodyType |-> "Sedan", fuelType |-> "Gasoline", transmission |-> "Manual",
      price |-> 2, createdAt |-> 1, status |-> "AVAILABLE"],
     [id |-> "car_2", make |-> "BMW", model |-> "X5", description |-> "family suv",
      bodyType |-> "SUV", fuelType |-> "Diesel", transmission |-> "Automatic",
      price |-> 0, createdAt |-> 3, status |-> "AVAILABLE"],
     [id |-> "car_3", make |-> "Honda", model |-> "Civic", description |-> "sport sedan",
      bodyType |-> "Sedan", fuelType |-> "Gasoline", transmission |-> "Automatic",
      price |-> 2, createdAt |-> 2, status |-> "AVAILABLE"],
     [id |-> "car_4", make |-> "Ford", model |-> "Figo", description |-> "city hatch",
      bodyType |-> "Hatchback", fuelType |-> "Gasoline", transmission |-> "Manual",
      price |-> 1, createdAt |-> 4, status |-> "SOLD"]}
CarTables == SUBSET CarPool

\* Car identifiers a caller may pass; "car_x" matches no car.
CarIdInputs == {"car_1", "car_x"}
Pairs == UserIds \X ({c.id : c \in CarPool} \cup CarIdInputs)

\* db.car.findUnique({ where: { id: carId } })
car_findUnique(table, carId) ==
    IF \E c \in table : c.id = carId THEN carId ELSE Null

\* Messages of the errors the collaborators raise.
AuthDown == "auth unavailable"
DbDown == "db unavailable"
\* The database driver's messages, without the grave accents it puts around the
\* call and the field names (a string here cannot hold one).
UniqueFailed ==
    "\nInvalid prisma.userSavedCar.create() invocation:\n\n\nUnique constraint failed on the fields: (userId,carId)"
DeleteMissing ==
    "\nInvalid prisma.userSavedCar.delete() invocation:\n\n\nAn operation failed because it depends on one or more records that were required but not found. Record to delete does not exist."
InfraCauses == {AuthDown, DbDown}

-----------------------------------------------------------------------------
(* The UserSavedCar table *)

\* db.userSavedCar.findUnique({ where: { userId_carId } }): the row or null.
savedCar_findUnique(rows, u, c) == rows[<<u, c>>] > 0

\* The table's @@unique([userId, carId]): an insert of a pair that is there is rejected.
UniqueViolationOff(rows, u, c) == FALSE
UniqueViolation(rows, u, c) == rows[<<u, c>>] > 0

\* db.userSavedCar.create({ data: { userId, carId } }): one more row.
savedCar_create(rows, u, c) == [rows EXCEPT ![<<u, c>>] = @ + 1]

\* db.userSavedCar.delete({ where: { userId_carId } }): the row goes.
savedCar_delete(rows, u, c) == [rows EXCEPT ![<<u, c>>] = @ - 1]

-----------------------------------------------------------------------------
(* toggleSavedCar's results *)

ErrorPrefix == "Error toggling saved car:"

NoOut == [kind |-> "none"]
\* catch (error) { throw new Error("Error toggling saved car:" + error.message) }
ThrownBare(cause) == [kind |-> "throw", message |-> cause, cause |-> cause]
Thrown(cause) == [kind |-> "throw", message |-> ErrorPrefix \o cause, cause |-> cause]
CarNotFound == [kind |-> "return", success |-> FALSE, error |-> "Car not found"]
Removed == [kind |-> "return", success |-> TRUE, saved |-> FALSE,
            message |-> "Car removed from favorites"]
Added == [kind |-> "return", success |-> TRUE, saved |-> TRUE,
          message |-> "Car added to favorites"]

\* The call ended because a collaborator was unavailable.
Infra(o) == o.kind = "throw" /\ o.cause \in InfraCauses

\* The pair a call is about, when its session has a user record.
PairOf(a) == <<user_findUnique(a.ident), a.carId>>
HasPair(a) == user_findUnique(a.ident) # Null

\* Request q writes pair k: every other request's window on k is no longer clean.
Disturb(q, k) ==
    /\ clean' = [p \in Procs |->
                    IF p # q /\ pc[p] # "idle" /\ HasPair(arg[p]) /\ PairOf(arg[p]) = k
                    THEN FALSE ELSE clean[p]]
    /\ chain' = [p \in Procs |->
                    IF p # q /\ pc[p] # "idle" /\ HasPair(arg[p]) /\ PairOf(arg[p]) = k
                    THEN NoOut ELSE chain[p]]

\* The function's locals, before any is assigned and after it has ended.
NoLocals == [userId |-> Unset, user |-> Unset, car |-> Unset, existingSave |-> Unset]

\* The call ends: returned value or thrown error.
Finish(p, result) ==
    /\ pc' = [pc EXCEPT ![p] = "done"]
    /\ out' = [out EXCEPT ![p] = result]
    /\ loc' = [loc EXCEPT ![p] = NoLocals]

\* The call goes on to its next await with local name set to value.
Goto(p, label, name, value) ==
    /\ pc' = [pc EXCEPT ![p] = label]
    /\ loc' = [loc EXCEPT ![p] = [@ EXCEPT ![name] = value]]
    /\ UNCHANGED out

-----------------------------------------------------------------------------
(* toggleSavedCar(carId), one await at a time *)

\* A request arrives: toggleSavedCar(carId) under session ident.
TsCall(p, ident, carId) ==
    /\ pc[p] \in {"idle", "done"}
    /\ pc' = [pc EXCEPT ![p] = "auth"]
    /\ arg' = [arg EXCEPT ![p] = [ident |-> ident, carId |-> carId]]
    /\ loc' = [loc EXCEPT ![p] = NoLocals]
    /\ out' = [out EXCEPT ![p] = NoOut]
    /\ wrote' = [wrote EXCEPT ![p] = FALSE]
    /\ inval' = [inval EXCEPT ![p] = 0]
    /\ LET a == [ident |-> ident, carId |-> carId]
           follows == /\ pc[p] = "done"
                      /\ arg[p] = a
                      /\ clean[p]
                      /\ ~Infra(out[p])
       IN  /\ before' = [before EXCEPT ![p] =
                            IF HasPair(a) THEN saved[PairOf(a)] ELSE 0]
           /\ clean' = [clean EXCEPT ![p] = TRUE]
           /\ chain' = [chain EXCEPT ![p] =
                            IF follows
                            THEN [kind |-> "call", before |-> before[p], out |-> out[p]]
                            ELSE NoOut]
    /\ UNCHANGED <<demoMode, carTable, saved, resp>>

\* const { userId } = await auth(); if (!userId) throw new Error("Unauthorized");
TsAuth(p, ok) ==
    /\ pc[p] = "auth"
    /\ IF ~ok THEN Finish(p, Thrown(AuthDown))
       ELSE IF arg[p].ident = NoIdent THEN Finish(p, Thrown("Unauthorized"))
       ELSE Goto(p, "findUser", "userId", arg[p].ident)
    /\ UNCHANGED <<demoMode, carTable, saved, arg, wrote, inval, before, clean,
                   chain, resp>>

\* const user = await db.user.findUnique(..); if (!user) throw new Error("User not found");
TsFindUser(p, ok) ==
    /\ pc[p] = "findUser"
    /\ IF ~ok THEN Finish(p, Thrown(DbDown))
       ELSE IF user_findUnique(loc[p].userId) = Null
       THEN Finish(p, Thrown("User not found"))
       ELSE Goto(p, "findCar", "user", user_findUnique(loc[p].userId))
    /\ UNCHANGED <<demoMode, carTable, saved, arg, wrote, inval, before, clean,
                   chain, resp>>

\* if (!car) return { success: false, error: "Car not found" };
CarMissingFallsThrough(p) == Goto(p, "findSave", "car", Null)
CarMissing(p) == Finish(p, CarNotFound)

\* const car = await db.car.findUnique(..); if (!car) return ..;
TsFindCar(p, ok) ==
    /\ pc[p] = "findCar"
    /\ IF ~ok THEN Finish(p, Thrown(DbDown))
       ELSE IF car_findUnique(carTable, arg[p].carId) = Null
       THEN CarMissing(p)
       ELSE Goto(p, "findSave", "car", car_findUnique(carTable, arg[p].carId))
    /\ UNCHANGED <<demoMode, carTable, saved, arg, wrote, inval, before, clean,
                   chain, resp>>

\* const existingSave = await db.userSavedCar.findUnique(..); if (existingSave) ..
TsFindSave(p, ok) ==
    /\ pc[p] = "findSave"
    /\ IF ~ok THEN Finish(p, Thrown(DbDown))
       ELSE Goto(p,
                 IF savedCar_findUnique(saved, loc[p].user, arg[p].carId)
                 THEN "delete" ELSE "create",
                 "existingSave",
                 savedCar_findUnique(saved, loc[p].user, arg[p].carId))
    /\ UNCHANGED <<demoMode, carTable, saved, arg, wrote, inval, before, clean,
                   chain, resp>>

\* await db.userSavedCar.delete(..): fails when the row is gone by now.
TsDeleteKeepsRow(p, ok) ==
    /\ pc[p] = "delete"
    /\ IF ~ok THEN Finish(p, Thrown(DbDown))
       ELSE /\ pc' = [pc EXCEPT ![p] = "deleted"]
            /\ UNCHANGED <<out, loc>>
    /\ UNCHANGED <<demoMode, carTable, saved, arg, wrote, inval, before, clean,
                   chain, resp>>
TsDelete(p, ok) ==
    /\ pc[p] = "delete"
    /\ IF ~ok
       THEN /\ Finish(p, Thrown(DbDown))
            /\ UNCHANGED <<saved, wrote, clean, chain>>
       ELSE IF ~savedCar_findUnique(saved, loc[p].user, arg[p].carId)
       THEN /\ Finish(p, Thrown(DeleteMissing))
            /\ UNCHANGED <<saved, wrote, clean, chain>>
       ELSE /\ saved' = savedCar_delete(saved, loc[p].user, arg[p].carId)
            /\ wrote' = [wrote EXCEPT ![p] = TRUE]
            /\ pc' = [pc EXCEPT ![p] = "deleted"]
            /\ Disturb(p, <<loc[p].user, arg[p].carId>>)
            /\ UNCHANGED <<out, loc>>
    /\ UNCHANGED <<demoMode, carTable, arg, inval, before, resp>>

\* revalidatePath(`/saved-cars`); return { success: true, saved: false, .. };
TsDeletedSilent(p) ==
    /\ pc[p] = "deleted"
    /\ Finish(p, Removed)
    /\ UNCHANGED <<demoMode, carTable, saved, arg, wrote, inval, before, clean,
                   chain, resp>>
TsDeleted(p) ==
    /\ pc[p] = "deleted"
    /\ inval' = [inval EXCEPT ![p] = @ + 1]
    /\ Finish(p, Removed)
    /\ UNCHANGED <<demoMode, carTable, saved, arg, wrote, before, clean, chain, resp>>

\* await db.userSavedCar.create(..): rejected by the uniqueness constraint
\* when the pair is there by now.
TsCreateReconciles(p, ok) ==
    /\ pc[p] = "create"
    /\ IF ~ok
       THEN /\ Finish(p, Thrown(DbDown))
            /\ UNCHANGED <<saved, wrote, clean, chain>>
       ELSE IF UniqueViolation(saved, loc[p].user, arg[p].carId)
       THEN /\ Finish(p, Added)
            /\ UNCHANGED <<saved, wrote, clean, chain>>
       ELSE /\ saved' = savedCar_create(saved, loc[p].user, arg[p].carId)
            /\ wrote' = [wrote EXCEPT ![p] = TRUE]
            /\ pc' = [pc EXCEPT ![p] = "created"]
            /\ Disturb(p, <<loc[p].user, arg[p].carId>>)
            /\ UNCHANGED <<out, loc>>
    /\ UNCHANGED <<demoMode, carTable, arg, inval, before, resp>>
TsCreate(p, ok) ==
    /\ pc[p] = "create"
    /\ IF ~ok
       THEN /\ Finish(p, Thrown(DbDown))
            /\ UNCHANGED <<saved, wrote, clean, chain>>
       ELSE IF UniqueViolation(saved, loc[p].user, arg[p].carId)
       THEN /\ Finish(p, Thrown(UniqueFailed))
            /\ UNCHANGED <<saved, wrote, clean, chain>>
       ELSE /\ saved' = savedCar_create(saved, loc[p].user, arg[p].carId)
            /\ wrote' = [wrote EXCEPT ![p] = TRUE]
            /\ pc' = [pc EXCEPT ![p] = "created"]
            /\ Disturb(p, <<loc[p].user, arg[p].carId>>)
            /\ UNCHANGED <<out, loc>>
    /\ UNCHANGED <<demoMode, carTable, arg, inval, before, resp>>

\* revalidatePath(`/saved-cars`); return { success: true, saved: true, .. };
TsCreated(p) ==
    /\ pc[p] = "created"
    /\ inval' = [inval EXCEPT ![p] = @ + 1]
    /\ Finish(p, Added)
    /\ UNCHANGED <<demoMode, carTable, saved, arg, wrote, before, clean, chain, resp>>

-----------------------------------------------------------------------------
(* JavaScript values of the numeric parameters *)

Undefined == [t |-> "undefined"]
Num(n) == [t |-> "number", v |-> n]
\* A string holding the decimal digits of n, as a URL parameter arrives.
NumStr(n) == [t |-> "string", v |-> n]
\* A string that is no number.
JunkStr == [t |-> "string", junk |-> TRUE]
\* Number.MAX_SAFE_INTEGER, 2^53 - 1: above every number of the model.
MAX_SAFE_INTEGER == [t |-> "number", maxSafe |-> TRUE]
NaN == [t |-> "number", nan |-> TRUE]
\* null, and a Decimal object of the database driver with its toString().
JsNull == [t |-> "null"]
Decimal(n) == [t |-> "decimal", v |-> n]
DecimalToString(d) == NumStr(d.v)

IsDigits(x) == x.t = "string" /\ "v" \in DOMAIN x
IsPlain(x) == x.t = "number" /\ "v" \in DOMAIN x

\* A parameter's default applies when the property is undefined.
OrDefault(x, d) == IF x = Undefined THEN d ELSE x

\* Truthiness: undefined, null, 0 and NaN are falsy; a non-empty string and any
\* object are truthy.
Truthy(x) ==
    IF x = Undefined \/ x = NaN \/ x = JsNull THEN FALSE
    ELSE IF IsPlain(x) THEN x.v # 0
    ELSE TRUE

\* parseFloat(x): the number itself, the number a digit string spells, else NaN.
parseFloat(x) ==
    IF IsPlain(x) \/ IsDigits(x) THEN Num(x.v)
    ELSE IF x = MAX_SAFE_INTEGER THEN MAX_SAFE_INTEGER
    ELSE NaN

\* x < Number.MAX_SAFE_INTEGER, with a string converted to a number first.
LessThanMaxSafe(x) == IsPlain(x) \/ IsDigits(x)

-----------------------------------------------------------------------------
(* Text: substring search without regard to case *)

\* The letters of the texts in the tables and in the searches.
Letters(s) ==
    CASE s = "Honda" -> <<"H", "o", "n", "d", "a">>
      [] s = "BMW" -> <<"B", "M", "W">>
      [] s = "Ford" -> <<"F", "o", "r", "d">>
      [] s = "City" -> <<"C", "i", "t", "y">>
      [] s = "Civic" -> <<"C", "i", "v", "i", "c">>
      [] s = "X5" -> <<"X", "5">>
      [] s = "Figo" -> <<"F", "i", "g", "o">>
      [] s = "city sedan" -> <<"c", "i", "t", "y", " ", "s", "e", "d", "a", "n">>
      [] s = "family suv" -> <<"f", "a", "m", "i", "l", "y", " ", "s", "u", "v">>
      [] s = "sport sedan" -> <<"s", "p", "o", "r", "t", " ", "s", "e", "d", "a", "n">>
      [] s = "city hatch" -> <<"c", "i", "t", "y", " ", "h", "a", "t", "c", "h">>
      [] s = "CI" -> <<"C", "I">>
      [] s = "suv" -> <<"s", "u", "v">>
      [] s = "zz" -> <<"z", "z">>
      [] OTHER -> <<>>

LowerLetter(ch) ==
    CASE ch = "H" -> "h" [] ch = "B" -> "b" [] ch = "M" -> "m" [] ch = "W" -> "w"
      [] ch = "F" -> "f" [] ch = "C" -> "c" [] ch = "X" -> "x" [] ch = "I" -> "i"
      [] OTHER -> ch

Lower(w) == [i \in 1..Len(w) |-> LowerLetter(w[i])]

\* { contains: needle, mode: "insensitive" }
ContainsInsensitive(hay, needle) ==
    LET h == Lower(Letters(hay))
        n == Lower(Letters(needle))
    IN  \E i \in 0..(Len(h) - Len(n)) : SubSeq(h, i + 1, i + Len(n)) = n

-----------------------------------------------------------------------------
(* The demo fixture and serialization (lib/data, lib/helpers) *)

FixtureSize == 3

\* featuredCars: the fixed list demo mode serves.
featuredCars ==
    [i \in 1..FixtureSize |->
        [id |-> i,
         make |-> IF i % 2 = 1 THEN "Honda" ELSE "BMW",
         model |-> IF i % 2 = 1 THEN "City" ELSE "X5",
         price |-> 10 + i]]

\* serializeCarData(car, wishlisted): the price as a number, the wishlist flag attached.
serializeCarData(c, wishlisted) ==
    [id |-> c.id, make |-> c.make, model |-> c.model, price |-> c.price,
     createdAt |-> c.createdAt, status |-> c.status, wishlisted |-> wishlisted]

\* The demo car getCars and getCarById build from a fixture entry.
DemoCar(f) ==
    [id |-> ToString(f.id), make |-> f.make, model |-> f.model, price |-> f.price,
     createdAt |-> "now", status |-> "AVAILABLE"]

-----------------------------------------------------------------------------
(* getCars: predicate, order, page *)

DefaultPage == 1
DefaultLimit == 6

\* where.price.gte = parseFloat(minPrice) || 0
PriceGte(minPrice) ==
    IF Truthy(parseFloat(minPrice)) THEN parseFloat(minPrice).v ELSE 0

\* if (maxPrice && maxPrice < Number.MAX_SAFE_INTEGER) where.price.lte = parseFloat(maxPrice)
HasPriceLte(maxPrice) == Truthy(maxPrice) /\ LessThanMaxSafe(maxPrice)

\* The parameters with their defaults.
Params(q) ==
    [search |-> IF q.search = Unset THEN "" ELSE q.search,
     make |-> IF q.make = Unset THEN "" ELSE q.make,
     bodyType |-> IF q.bodyType = Unset THEN "" ELSE q.bodyType,
     fuelType |-> IF q.fuelType = Unset THEN "" ELSE q.fuelType,
     transmission |-> IF q.transmission = Unset THEN "" ELSE q.transmission,
     minPrice |-> OrDefault(q.minPrice, Num(0)),
     maxPrice |-> OrDefault(q.maxPrice, MAX_SAFE_INTEGER),
     sortBy |-> IF q.sortBy = Unset THEN "newest" ELSE q.sortBy,
     page |-> OrDefault(q.page, Num(DefaultPage)).v,
     limit |-> OrDefault(q.limit, Num(DefaultLimit)).v]

\* The where object, as a predicate on a Car row.  P is Params(q).
Where(P, c) ==
    /\ c.status = "AVAILABLE"
    /\ P.search # "" =>
          \/ ContainsInsensitive(c.make, P.search)
          \/ ContainsInsensitive(c.model, P.search)
          \/ ContainsInsensitive(c.description, P.search)
    /\ P.make # "" => c.make = P.make
    /\ P.bodyType # "" => c.bodyType = P.bodyType
    /\ P.fuelType # "" => c.fuelType = P.fuelType
    /\ P.transmission # "" => c.transmission = P.transmission
    /\ c.price >= PriceGte(P.minPrice)
    /\ HasPriceLte(P.maxPrice) => c.price <= parseFloat(P.maxPrice).v

\* switch (sortBy): the orderBy object.
OrderBySwapped(sortBy) ==
    CASE sortBy = "priceAsc" -> [field |-> "price", dir |-> "desc"]
      [] sortBy = "priceDesc" -> [field |-> "price", dir |-> "asc"]
      [] OTHER -> [field |-> "createdAt", dir |-> "desc"]
OrderBy(sortBy) ==
    CASE sortBy = "priceAsc" -> [field |-> "price", dir |-> "asc"]
      [] sortBy = "priceDesc" -> [field |-> "price", dir |-> "desc"]
      [] OTHER -> [field |-> "createdAt", dir |-> "desc"]

\* The orders the database may return rows S in under orderBy o (ties in any order).
Ordered(S, o) ==
    {r \in [1..Cardinality(S) -> S] :
        /\ \A i, j \in 1..Cardinality(S) : i # j => r[i] # r[j]
        /\ \A i \in 1..(Cardinality(S) - 1) :
              IF o.dir = "asc" THEN r[i][o.field] <= r[i + 1][o.field]
              ELSE r[i][o.field] >= r[i + 1][o.field]}

\* findMany's take and skip over the ordered rows.
TakeSkip(rows, take, skip) ==
    SubSeq(rows, skip + 1, IF skip + take < Len(rows) THEN skip + take ELSE Len(rows))

\* Math.ceil(total / limit), limit > 0
CeilDiv(total, limit) == (total + limit - 1) \div limit

-----------------------------------------------------------------------------
(* The retrieval functions: one call in flight, one await at a time *)

NoResp == [fn |-> "none"]
NoResult == [pending |-> TRUE]
\* The locals of a call that has ended.
Ended == <<>>

\* The collaborator a step calls.
Collaborator(step) ==
    CASE step = "auth" -> "auth"
      [] step \in {"user", "car", "count", "page", "wishlist", "testDrive", "dealership",
                   "savedCars", "makes", "bodyTypes", "fuelTypes", "transmissions",
                   "aggregate"} -> "db"
      [] OTHER -> "none"

\* The message of the error a failing step raises.
FailureMessage(step) ==
    CASE Collaborator(step) = "auth" -> AuthDown
      [] Collaborator(step) = "db" -> DbDown
      [] OTHER -> "import failed"

\* The retrieval call in flight is function fn, waiting at step.
Running(fn, step) == resp.fn = fn /\ resp.at = step

\* The function is entered and runs to its first await.
Enter(fn, call, locals, step) ==
    resp' = [fn |-> fn, call |-> call, mode |-> IF isDemoMode THEN "demo" ELSE "live",
             at |-> step, loc |-> locals,
             touched |-> {Collaborator(step)} \ {"none"},
             raised |-> "none", result |-> NoResult, source |-> "none"]

\* The function is entered and returns before any await.
Immediate(fn, call, result, source) ==
    resp' = [fn |-> fn, call |-> call, mode |-> IF isDemoMode THEN "demo" ELSE "live",
             at |-> "done", loc |-> Ended, touched |-> {},
             raised |-> "none", result |-> result, source |-> source]

\* The awaited call answered: local name gets value, the call goes on to await step.
Await(name, value, step) ==
    resp' = [resp EXCEPT !.at = step,
                         !.loc = [@ EXCEPT ![name] = value],
                         !.touched = @ \cup ({Collaborator(step)} \ {"none"})]

\* The function returns result.
Answer(result, source) ==
    resp' = [resp EXCEPT !.at = "done", !.loc = Ended,
                         !.result = result, !.source = source]

\* The awaited call raised and the catch block returns result.
Caught(result, source) ==
    resp' = [resp EXCEPT !.at = "done", !.loc = Ended, !.raised = resp.at,
                         !.result = result, !.source = source]

\* new Set(savedCars.map((saved) => saved.carId)).has(id)
Wishlisted(rows, u, id) == <<u, id>> \in DOMAIN rows /\ rows[<<u, id>>] > 0

\* userSavedCar.findMany({ where: { userId }, select: { carId } }) as a Set
SavedCarIds(rows, u) == {k[2] : k \in {x \in DOMAIN rows : x[1] = u /\ rows[x] > 0}}

\* The client takes the answer.
TakeResponse ==
    /\ resp # NoResp
    /\ resp.at = "done"
    /\ resp' = NoResp
    /\ UNCHANGED <<demoMode, carTable, saved, tvars>>

\* The client takes toggleSavedCar's result; the request slot is free again.
Settle(p) ==
    /\ pc[p] = "done"
    /\ pc' = [pc EXCEPT ![p] = "idle"]
    /\ arg' = [arg EXCEPT ![p] = [ident |-> NoIdent, carId |-> "car_x"]]
    /\ out' = [out EXCEPT ![p] = NoOut]
    /\ wrote' = [wrote EXCEPT ![p] = FALSE]
    /\ inval' = [inval EXCEPT ![p] = 0]
    /\ before' = [before EXCEPT ![p] = 0]
    /\ clean' = [clean EXCEPT ![p] = TRUE]
    /\ chain' = [chain EXCEPT ![p] = NoOut]
    /\ UNCHANGED <<demoMode, carTable, saved, loc, resp>>

-----------------------------------------------------------------------------
(* getCars(params) *)

\* catch: { success: true, data: [], pagination: { total: 0, page, limit, pages: 0 } }
GetCarsCatchFailure(P) ==
    [success |-> FALSE, data |-> <<>>,
     pagination |-> [total |-> 0, page |-> P.page, limit |-> P.limit, pages |-> 0]]
GetCarsCatch(P) ==
    [success |-> TRUE, data |-> <<>>,
     pagination |-> [total |-> 0, page |-> P.page, limit |-> P.limit, pages |-> 0]]

\* The demo branch: every fixture car, pages: 1.
GetCarsDemo(P) ==
    [success |-> TRUE,
     data |-> [i \in 1..Len(featuredCars) |->
                  serializeCarData(DemoCar(featuredCars[i]), FALSE)],
     pagination |-> [total |-> Len(featuredCars), page |-> P.page, limit |-> P.limit,
                     pages |-> 1]]

\* The live branch's return: cars is the page findMany gave, wishlisted the Set.
GetCarsLive(P, totalCars, cars, wishlisted) ==
    [success |-> TRUE,
     data |-> [i \in 1..Len(cars) |-> serializeCarData(cars[i], cars[i].id \in wishlisted)],
     pagination |-> [total |-> totalCars, page |-> P.page, limit |-> P.limit,
                     pages |-> CeilDiv(totalCars, P.limit)]]

\* let dbUser = null; the other locals are assigned on the way.
GetCarsLocals == [userId |-> Unset, dbUser |-> Null, totalCars |-> Unset, cars |-> Unset]

\* getCars(call.q) under session call.ident is entered: demo mode awaits the
\* import of lib/data, live mode awaits auth().
GetCars(call) ==
    /\ resp = NoResp
    /\ Enter("getCars", call, GetCarsLocals, IF isDemoMode THEN "import" ELSE "auth")
    /\ UNCHANGED <<demoMode, carTable, saved, tvars>>

\* const { featuredCars } = await import("@/lib/data"); return { .. pages: 1 }
GetCarsImport(ok) ==
    /\ Running("getCars", "import")
    /\ IF ok THEN Answer(GetCarsDemo(Params(resp.call.q)), "fixture")
       ELSE Caught(GetCarsCatch(Params(resp.call.q)), "none")
    /\ UNCHANGED <<demoMode, carTable, saved, tvars>>

\* const { userId } = await auth(); if (userId) dbUser = await db.user.findUnique(..)
GetCarsAuth(ok) ==
    /\ Running("getCars", "auth")
    /\ IF ok
       THEN Await("userId", resp.call.ident,
                  IF resp.call.ident # NoIdent THEN "user" ELSE "count")
       ELSE Caught(GetCarsCatch(Params(resp.call.q)), "none")
    /\ UNCHANGED <<demoMode, carTable, saved, tvars>>

\* dbUser = await db.user.findUnique({ where: { clerkUserId: userId } })
GetCarsUser(ok) ==
    /\ Running("getCars", "user")
    /\ IF ok THEN Await("dbUser", user_findUnique(resp.loc.userId), "count")
       ELSE Caught(GetCarsCatch(Params(resp.call.q)), "none")
    /\ UNCHANGED <<demoMode, carTable, saved, tvars>>

\* const totalCars = await db.car.count({ where })
GetCarsCount(ok) ==
    /\ Running("getCars", "count")
    /\ IF ok
       THEN Await("totalCars",
                  Cardinality({c \in carTable : Where(Params(resp.call.q), c)}), "page")
       ELSE Caught(GetCarsCatch(Params(resp.call.q)), "none")
    /\ UNCHANGED <<demoMode, carTable, saved, tvars>>

\* const cars = await db.car.findMany({ where, take: limit, skip, orderBy });
\* with no dbUser the function serializes and returns here.
GetCarsPage(ok) ==
    /\ Running("getCars", "page")
    /\ LET P == Params(resp.call.q) IN
       IF ok
       THEN \E ordered \in Ordered({c \in carTable : Where(P, c)}, OrderBy(P.sortBy)) :
              LET cars == TakeSkip(ordered, P.limit, (P.page - 1) * P.limit) IN
              IF resp.loc.dbUser # Null
              THEN Await("cars", cars, "wishlist")
              ELSE Answer(GetCarsLive(P, resp.loc.totalCars, cars, {}), "db")
       ELSE Caught(GetCarsCatch(P), "none")
    /\ UNCHANGED <<demoMode, carTable, saved, tvars>>

\* const savedCars = await db.userSavedCar.findMany({ where: { userId: dbUser.id } });
\* serialize and return.
GetCarsWishlist(ok) ==
    /\ Running("getCars", "wishlist")
    /\ LET P == Params(resp.call.q) IN
       IF ok
       THEN Answer(GetCarsLive(P, resp.loc.totalCars, resp.loc.cars,
                               SavedCarIds(saved, resp.loc.dbUser)), "db")
       ELSE Caught(GetCarsCatch(P), "none")
    /\ UNCHANGED <<demoMode, carTable, saved, tvars>>

-----------------------------------------------------------------------------
(* getCarFilters() *)

\* The demo branch's data.
DemoFilters ==
    [makes |-> <<"Hyundai", "Honda", "BMW", "Tata", "Mahindra", "Ford">>,
     bodyTypes |-> <<"SUV", "Sedan", "Hatchback", "Convertible">>,
     fuelTypes |-> <<"Gasoline", "Diesel", "Electric", "Hybrid">>,
     transmissions |-> <<"Automatic", "Manual">>,
     priceRange |-> [min |-> 0, max |-> 100000]]

\* The catch block's data.
FallbackFilters ==
    [makes |-> <<"Hyundai", "Honda", "BMW", "Tata", "Mahindra", "Ford">>,
     bodyTypes |-> <<"SUV", "Sedan", "Hatchback", "Convertible">>,
     fuelTypes |-> <<"Gasoline", "Diesel", "Electric", "Hybrid">>,
     transmissions |-> <<"Automatic", "Manual">>,
     priceRange |-> [min |-> 0, max |-> 100000]]

\* The collations the database may order text by: by code unit ("C", where an
\* upper-case letter sorts before every lower-case one), or by a locale's
\* dictionary order ("en_US", where case counts only to break a tie).  The code
\* asks for orderBy asc and leaves the collation to the database.
Collations == {"C", "en_US"}

\* The place of a text of the tables in the ascending order of a collation:
\* "SUV" is before "Sedan" by code unit and after it in dictionary order.
TextRank(collation, t) ==
    CASE t = "Automatic" -> 1 [] t = "BMW" -> 2 [] t = "Diesel" -> 3 [] t = "Ford" -> 4
      [] t = "Gasoline" -> 5 [] t = "Hatchback" -> 6 [] t = "Honda" -> 7
      [] t = "Manual" -> 8
      [] t = "SUV" -> IF collation = "C" THEN 9 ELSE 10
      [] t = "Sedan" -> IF collation = "C" THEN 10 ELSE 9
      [] OTHER -> 0

\* findMany({ where: { status: "AVAILABLE" }, select, distinct, orderBy: asc })
DistinctAsc(table, field, collation) ==
    LET S == {c[field] : c \in {x \in table : x.status = "AVAILABLE"}}
    IN  CHOOSE r \in [1..Cardinality(S) -> S] :
            \A i, j \in 1..Cardinality(S) :
                i < j => TextRank(collation, r[i]) < TextRank(collation, r[j])

\* aggregate({ where: { status: "AVAILABLE" }, _min: { price }, _max: { price } })
PriceAggregate(table) ==
    LET S == {c.price : c \in {x \in table : x.status = "AVAILABLE"}}
    IN  IF S = {} THEN [min |-> JsNull, max |-> JsNull]
        ELSE [min |-> Decimal(CHOOSE m \in S : \A n \in S : m <= n),
              max |-> Decimal(CHOOSE m \in S : \A n \in S : m >= n)]

\* The live branch's data, from the four lists and the aggregate the awaits gave.
LiveFilters(l, priceAggregations) ==
    [makes |-> l.makes,
     bodyTypes |-> l.bodyTypes,
     fuelTypes |-> l.fuelTypes,
     transmissions |-> l.transmissions,
     priceRange |->
        [min |-> IF Truthy(priceAggregations.min)
                 THEN parseFloat(DecimalToString(priceAggregations.min)).v ELSE 0,
         max |-> IF Truthy(priceAggregations.max)
                 THEN parseFloat(DecimalToString(priceAggregations.max)).v
                 ELSE 100000]]

\* catch: the page still renders, with the fixed vocabulary
GetCarFiltersCatchFailure == [success |-> FALSE, data |-> FallbackFilters]
GetCarFiltersCatch == [success |-> TRUE, data |-> FallbackFilters]

GetCarFiltersLocals ==
    [makes |-> Unset, bodyTypes |-> Unset, fuelTypes |-> Unset, transmissions |-> Unset]

\* getCarFilters() is entered, against a database of the given collation: demo
\* mode returns at once, live mode awaits the first findMany.
GetCarFilters(collation) ==
    /\ resp = NoResp
    /\ IF isDemoMode
       THEN Immediate("getCarFilters", [collation |-> collation],
                      [success |-> TRUE, data |-> DemoFilters], "fixture")
       ELSE Enter("getCarFilters", [collation |-> collation], GetCarFiltersLocals,
                  "makes")
    /\ UNCHANGED <<demoMode, carTable, saved, tvars>>

\* One of the four distinct queries answers; the next query is awaited.
FindDistinct(step, field, next, ok) ==
    /\ Running("getCarFilters", step)
    /\ IF ok THEN Await(step, DistinctAsc(carTable, field, resp.call.collation), next)
       ELSE Caught(GetCarFiltersCatch, "fixture")
    /\ UNCHANGED <<demoMode, carTable, saved, tvars>>

\* const makes = await db.car.findMany({ .. distinct: ["make"] .. })
GetCarFiltersMakes(ok) == FindDistinct("makes", "make", "bodyTypes", ok)
\* const bodyTypes = await db.car.findMany({ .. distinct: ["bodyType"] .. })
GetCarFiltersBodyTypes(ok) == FindDistinct("bodyTypes", "bodyType", "fuelTypes", ok)
\* const fuelTypes = await db.car.findMany({ .. distinct: ["fuelType"] .. })
GetCarFiltersFuelTypes(ok) == FindDistinct("fuelTypes", "fuelType", "transmissions", ok)
\* const transmissions = await db.car.findMany({ .. distinct: ["transmission"] .. })
GetCarFiltersTransmissions(ok) ==
    FindDistinct("transmissions", "transmission", "aggregate", ok)

\* const priceAggregations = await db.car.aggregate(..); return { success: true, data }
GetCarFiltersAggregate(ok) ==
    /\ Running("getCarFilters", "aggregate")
    /\ IF ok
       THEN Answer([success |-> TRUE,
                    data |-> LiveFilters(resp.loc, PriceAggregate(carTable))], "db")
       ELSE Caught(GetCarFiltersCatch, "fixture")
    /\ UNCHANGED <<demoMode, carTable, saved, tvars>>

-----------------------------------------------------------------------------
(* getCarById(carId) *)

\* The TestDriveBooking table and the DealershipInfo record: read only here.
TestDriveTable ==
    {[id |-> "t1", carId |-> "car_1", userId |-> "u1", status |-> "PENDING",
      createdAt |-> 1, bookingDate |-> 7],
     [id |-> "t2", carId |-> "car_1", userId |-> "u1", status |-> "CANCELLED",
      createdAt |-> 3, bookingDate |-> 8],
     [id |-> "t3", carId |-> "car_1", userId |-> "u1", status |-> "CONFIRMED",
      createdAt |-> 2, bookingDate |-> 9]}
Dealership == [id |-> "d1", workingHours |-> <<"MONDAY", "TUESDAY">>]
\* The DealershipInfo table: empty, or holding the one record.
DealershipTables == {{}, {Dealership}}

\* testDriveBooking.findFirst({ where: { carId, userId, status: { in } },
\*                              orderBy: { createdAt: "desc" } })
UserTestDrive(carId, u) ==
    LET S == {b \in TestDriveTable :
                 /\ b.carId = carId
                 /\ b.userId = u
                 /\ b.status \in {"PENDING", "CONFIRMED", "COMPLETED"}}
    IN  IF S = {} THEN Null
        ELSE LET b == CHOOSE x \in S : \A y \in S : x.createdAt >= y.createdAt
             IN  [id |-> b.id, status |-> b.status, bookingDate |-> b.bookingDate]

\* The row of table with this id.
CarRow(table, carId) == CHOOSE c \in table : c.id = carId

\* The try block's return for a car that was found; dealershipInfo is the table
\* findFirst read: dealership ? { ...dealership, .. } : null.
GetCarByIdLive(l, dealershipInfo) ==
    [success |-> TRUE,
     data |-> [car |-> serializeCarData(l.car, l.isWishlisted),
               testDriveInfo |->
                  [userTestDrive |-> l.userTestDrive,
                   dealership |-> IF dealershipInfo = {} THEN Null
                                  ELSE CHOOSE d \in dealershipInfo : TRUE]]]

\* The catch block: the fixture entry in demo mode, else the error.
GetCarByIdCatch(demo, carId, message) ==
    IF demo
    THEN IF \E i \in 1..Len(featuredCars) : ToString(featuredCars[i].id) = carId
         THEN [success |-> TRUE,
               data |-> [car |-> serializeCarData(
                                    DemoCar(featuredCars[
                                       CHOOSE i \in 1..Len(featuredCars) :
                                          ToString(featuredCars[i].id) = carId]), FALSE),
                         testDriveInfo |-> [userTestDrive |-> Null,
                                            dealership |-> Null]]]
         ELSE [success |-> FALSE, error |-> "Car not found"]
    ELSE [success |-> FALSE, error |-> message]

\* let dbUser = null; let isWishlisted = false; let userTestDrive = null
GetCarByIdLocals ==
    [userId |-> Unset, dbUser |-> Null, car |-> Unset, isWishlisted |-> FALSE,
     userTestDrive |-> Null, error |-> Unset]

\* The awaited call raised: in demo mode the catch block awaits the import of
\* lib/data, otherwise it returns the error.
GetCarByIdRaised ==
    IF isDemoMode
    THEN resp' = [resp EXCEPT !.at = "catchImport", !.raised = resp.at,
                              !.loc = [@ EXCEPT !.error = FailureMessage(resp.at)]]
    ELSE Caught(GetCarByIdCatch(FALSE, resp.call.carId, FailureMessage(resp.at)), "none")

\* getCarById(call.carId) under session call.ident is entered and awaits auth().
GetCarById(call) ==
    /\ resp = NoResp
    /\ Enter("getCarById", call, GetCarByIdLocals, "auth")
    /\ UNCHANGED <<demoMode, carTable, saved, tvars>>

\* const { userId } = await auth(); if (userId) dbUser = await db.user.findUnique(..)
GetCarByIdAuth(ok) ==
    /\ Running("getCarById", "auth")
    /\ IF ok
       THEN Await("userId", resp.call.ident,
                  IF resp.call.ident # NoIdent THEN "user" ELSE "car")
       ELSE GetCarByIdRaised
    /\ UNCHANGED <<demoMode, carTable, saved, tvars>>

\* dbUser = await db.user.findUnique({ where: { clerkUserId: userId } })
GetCarByIdUser(ok) ==
    /\ Running("getCarById", "user")
    /\ IF ok THEN Await("dbUser", user_findUnique(resp.loc.userId), "car")
       ELSE GetCarByIdRaised
    /\ UNCHANGED <<demoMode, carTable, saved, tvars>>

\* const car = await db.car.findUnique(..); if (!car) return { success: false, .. }
GetCarByIdCar(ok) ==
    /\ Running("getCarById", "car")
    /\ IF ~ok THEN GetCarByIdRaised
       ELSE IF car_findUnique(carTable, resp.call.carId) = Null
       THEN Answer([success |-> FALSE, error |-> "Car not found"], "db")
       ELSE Await("car", CarRow(carTable, resp.call.carId),
                  IF resp.loc.dbUser # Null THEN "wishlist" ELSE "dealership")
    /\ UNCHANGED <<demoMode, carTable, saved, tvars>>

\* const savedCar = await db.userSavedCar.findUnique(..); isWishlisted = !!savedCar
GetCarByIdWishlist(ok) ==
    /\ Running("getCarById", "wishlist")
    /\ IF ok
       THEN Await("isWishlisted", Wishlisted(saved, resp.loc.dbUser, resp.call.carId),
                  "testDrive")
       ELSE GetCarByIdRaised
    /\ UNCHANGED <<demoMode, carTable, saved, tvars>>

\* existingTestDrive = await db.testDriveBooking.findFirst(..)
GetCarByIdTestDrive(ok) ==
    /\ Running("getCarById", "testDrive")
    /\ IF ok
       THEN Await("userTestDrive", UserTestDrive(resp.call.carId, resp.loc.dbUser),
                  "dealership")
       ELSE GetCarByIdRaised
    /\ UNCHANGED <<demoMode, carTable, saved, tvars>>

\* const dealership = await db.dealershipInfo.findFirst(..); return { success: true, .. }
GetCarByIdDealership(ok, dealershipInfo) ==
    /\ Running("getCarById", "dealership")
    /\ IF ok THEN Answer(GetCarByIdLive(resp.loc, dealershipInfo), "db")
       ELSE GetCarByIdRaised
    /\ UNCHANGED <<demoMode, carTable, saved, tvars>>

\* catch, demo mode: const { featuredCars } = await import("@/lib/data"); when the
\* import itself raises, the function throws.
GetCarByIdCatchImport(ok) ==
    /\ Running("getCarById", "catchImport")
    /\ IF ok THEN Answer(GetCarByIdCatch(TRUE, resp.call.carId, resp.loc.error), "fixture")
       ELSE Answer([thrown |-> TRUE, message |-> FailureMessage("catchImport")], "none")
    /\ UNCHANGED <<demoMode, carTable, saved, tvars>>

-----------------------------------------------------------------------------
(* getSavedCars() *)

\* The cars of the user's rows, in the order findMany gives them (savedAt descending;
\* the rows' times are not modelled, so any order of the rows may be the one).
SavedCarOrders(table, rows, u) ==
    LET S == {c \in table : Wishlisted(rows, u, c.id)}
    IN  {r \in [1..Cardinality(S) -> S] :
            \A i, j \in 1..Cardinality(S) : i # j => r[i] # r[j]}

\* serializeCarData(saved.car): the wishlist flag is left to its default.
DefaultWishlisted == FALSE

\* catch: { success: false, error: error.message }
GetSavedCarsCatch(step) == [success |-> FALSE, error |-> FailureMessage(step)]

GetSavedCarsLocals == [userId |-> Unset, user |-> Unset]

\* getSavedCars() under session call.ident is entered and awaits auth().
GetSavedCars(call) ==
    /\ resp = NoResp
    /\ Enter("getSavedCars", call, GetSavedCarsLocals, "auth")
    /\ UNCHANGED <<demoMode, carTable, saved, tvars>>

\* const { userId } = await auth(); if (!userId) return { success: false, .. }
GetSavedCarsAuth(ok) ==
    /\ Running("getSavedCars", "auth")
    /\ IF ~ok THEN Caught(GetSavedCarsCatch("auth"), "none")
       ELSE IF resp.call.ident = NoIdent
       THEN Answer([success |-> FALSE, error |-> "Unauthorized"], "none")
       ELSE Await("userId", resp.call.ident, "user")
    /\ UNCHANGED <<demoMode, carTable, saved, tvars>>

\* const user = await db.user.findUnique(..); if (!user) return { success: false, .. }
GetSavedCarsUser(ok) ==
    /\ Running("getSavedCars", "user")
    /\ IF ~ok THEN Caught(GetSavedCarsCatch("user"), "none")
       ELSE IF user_findUnique(resp.loc.userId) = Null
       THEN Answer([success |-> FALSE, error |-> "User not found"], "none")
       ELSE Await("user", user_findUnique(resp.loc.userId), "savedCars")
    /\ UNCHANGED <<demoMode, carTable, saved, tvars>>

\* const savedCars = await db.userSavedCar.findMany({ .. include: { car: true } .. });
\* return { success: true, data: savedCars.map(..) }
GetSavedCarsFindMany(ok) ==
    /\ Running("getSavedCars", "savedCars")
    /\ IF ok
       THEN \E cars \in SavedCarOrders(carTable, saved, resp.loc.user) :
              Answer([success |-> TRUE,
                      data |-> [i \in 1..Len(cars) |->
                                   serializeCarData(cars[i], DefaultWishlisted)]], "db")
       ELSE Caught(GetSavedCarsCatch("savedCars"), "none")
    /\ UNCHANGED <<demoMode, carTable, saved, tvars>>

-----------------------------------------------------------------------------
(* The calls the client makes *)

MaxPriceInput == 2
MaxPage == 2
MaxLimit == 2

NoQuery ==
    [search |-> Unset, make |-> Unset, bodyType |-> Unset, fuelType |-> Unset,
     transmission |-> Unset, minPrice |-> Undefined, maxPrice |-> Undefined,
     sortBy |-> Unset, page |-> Undefined, limit |-> Undefined]

SortKeys == {Unset, "newest", "priceAsc", "priceDesc", "oldest"}
MinPrices == {Undefined, JunkStr} \cup {Num(n) : n \in 0..MaxPriceInput}
MaxPrices == {Undefined, MAX_SAFE_INTEGER, JunkStr, NumStr(0)}
                \cup {Num(n) : n \in 0..MaxPriceInput}
Pages == {Undefined} \cup {Num(n) : n \in 1..MaxPage}
Limits == {Undefined} \cup {Num(n) : n \in 1..MaxLimit}

PriceQueries ==
    {[NoQuery EXCEPT !.minPrice = a, !.maxPrice = b] : a \in MinPrices, b \in MaxPrices}
PageQueries ==
    {[NoQuery EXCEPT !.sortBy = k, !.page = g, !.limit = l] :
        k \in SortKeys, g \in Pages, l \in Limits}
TextQueries ==
    {[NoQuery EXCEPT !.search = t, !.make = m, !.bodyType = b] :
        t \in {Unset, "CI", "suv", "zz"}, m \in {Unset, "", "Honda"},
        b \in {Unset, "Sedan"}}
    \cup {[NoQuery EXCEPT !.fuelType = f, !.transmission = x] :
            f \in {Unset, "Diesel"}, x \in {Unset, "Manual"}}

GetCarsCalls ==
    {[q |-> q, ident |-> "clerk_1"] : q \in PriceQueries \cup PageQueries \cup TextQueries}
    \cup {[q |-> [NoQuery EXCEPT !.limit = l], ident |-> i] : l \in Limits, i \in Idents}

GetCarByIdCalls ==
    {[carId |-> c, ident |-> i] : c \in CarIdInputs \cup {"car_2", "1", "9"}, i \in Idents}

GetSavedCarsCalls == {[ident |-> i] : i \in Idents}

\* The sessions that toggle while a retrieval call is in flight.
ReadTogglers == {NoIdent, "clerk_1"}

-----------------------------------------------------------------------------
(* Concurrent wishlist requests *)

TInit ==
    /\ pc = [p \in Procs |-> "idle"]
    /\ arg = [p \in Procs |-> [ident |-> NoIdent, carId |-> "car_x"]]
    /\ loc = [p \in Procs |-> NoLocals]
    /\ out = [p \in Procs |-> NoOut]
    /\ wrote = [p \in Procs |-> FALSE]
    /\ inval = [p \in Procs |-> 0]
    /\ before = [p \in Procs |-> 0]
    /\ clean = [p \in Procs |-> TRUE]
    /\ chain = [p \in Procs |-> NoOut]

Init ==
    /\ demoMode \in BOOLEAN
    /\ carTable = CarPool
    /\ saved = [k \in Pairs |-> 0]
    /\ resp = NoResp
    /\ TInit

Next ==
    \/ \E p \in Procs, ident \in Idents, carId \in CarIdInputs : TsCall(p, ident, carId)
    \/ \E p \in Procs, ok \in BOOLEAN : TsAuth(p, ok)
    \/ \E p \in Procs, ok \in BOOLEAN : TsFindUser(p, ok)
    \/ \E p \in Procs, ok \in BOOLEAN : TsFindCar(p, ok)
    \/ \E p \in Procs, ok \in BOOLEAN : TsFindSave(p, ok)
    \/ \E p \in Procs, ok \in BOOLEAN : TsDelete(p, ok)
    \/ \E p \in Procs : TsDeleted(p)
    \/ \E p \in Procs, ok \in BOOLEAN : TsCreate(p, ok)
    \/ \E p \in Procs : TsCreated(p)

Spec == Init /\ [][Next]_vars


-----------------------------------------------------------------------------
(* A retrieval call and a wishlist toggle side by side *)

InitRead ==
    /\ demoMode \in BOOLEAN
    /\ carTable \in CarTables
    /\ saved = [k \in Pairs |-> 0]
    /\ resp = NoResp
    /\ TInit

NextRead ==
    \/ \E collation \in Collations : GetCarFilters(collation)
    \/ \E ok \in BOOLEAN : GetCarFiltersMakes(ok)
    \/ \E ok \in BOOLEAN : GetCarFiltersBodyTypes(ok)
    \/ \E ok \in BOOLEAN : GetCarFiltersFuelTypes(ok)
    \/ \E ok \in BOOLEAN : GetCarFiltersTransmissions(ok)
    \/ \E ok \in BOOLEAN : GetCarFiltersAggregate(ok)
    \/ \E call \in GetCarsCalls : GetCars(call)
    \/ \E ok \in BOOLEAN : GetCarsImport(ok)
    \/ \E ok \in BOOLEAN : GetCarsAuth(ok)
    \/ \E ok \in BOOLEAN : GetCarsUser(ok)
    \/ \E ok \in BOOLEAN : GetCarsCount(ok)
    \/ \E ok \in BOOLEAN : GetCarsPage(ok)
    \/ \E ok \in BOOLEAN : GetCarsWishlist(ok)
    \/ \E call \in GetCarByIdCalls : GetCarById(call)
    \/ \E ok \in BOOLEAN : GetCarByIdAuth(ok)
    \/ \E ok \in BOOLEAN : GetCarByIdUser(ok)
    \/ \E ok \in BOOLEAN : GetCarByIdCar(ok)
    \/ \E ok \in BOOLEAN : GetCarByIdWishlist(ok)
    \/ \E ok \in BOOLEAN : GetCarByIdTestDrive(ok)
    \/ \E ok \in BOOLEAN, dealershipInfo \in DealershipTables :
          GetCarByIdDealership(ok, dealershipInfo)
    \/ \E ok \in BOOLEAN : GetCarByIdCatchImport(ok)
    \/ \E call \in GetSavedCarsCalls : GetSavedCars(call)
    \/ \E ok \in BOOLEAN : GetSavedCarsAuth(ok)
    \/ \E ok \in BOOLEAN : GetSavedCarsUser(ok)
    \/ \E ok \in BOOLEAN : GetSavedCarsFindMany(ok)
    \/ TakeResponse
    \/ \E ident \in ReadTogglers, carId \in CarIdInputs :
          pc["r1"] = "idle" /\ TsCall("r1", ident, carId)
    \/ \E ok \in BOOLEAN : TsAuth("r1", ok)
    \/ \E ok \in BOOLEAN : TsFindUser("r1", ok)
    \/ \E ok \in BOOLEAN : TsFindCar("r1", ok)
    \/ \E ok \in BOOLEAN : TsFindSave("r1", ok)
    \/ \E ok \in BOOLEAN : TsDelete("r1", ok)
    \/ TsDeleted("r1")
    \/ \E ok \in BOOLEAN : TsCreate("r1", ok)
    \/ TsCreated("r1")
    \/ Settle("r1")

SpecRead == InitRead /\ [][NextRead]_vars


-----------------------------------------------------------------------------
(* Properties of toggleSavedCar under concurrent requests (Spec) *)

\* C1: whatever the interleaving of toggleSavedCar calls, the UserSavedCar table
\* holds at most one row for each (user, car) pair.
C1_AtMostOneRowPerPair == \A k \in Pairs : saved[k] <= 1

\* C1 witness: two requests raced on one pair, one insert was rejected by the
\* uniqueness constraint and the pair has its single row.
C1_Witness ==
    \E p, q \in Procs :
        /\ p # q
        /\ pc[p] = "done" /\ out[p].kind = "throw" /\ out[p].cause = UniqueFailed
        /\ pc[q] = "done" /\ out[q] = Added
        /\ PairOf(arg[p]) = PairOf(arg[q])
        /\ saved[PairOf(arg[p])] = 1

\* C2: a request's second of two consecutive toggleSavedCar calls for the same
\* (user, car), with an existing car, no write to the pair by any other request
\* since the first call began and no collaborator failure, has returned, and the
\* pair's membership is what it was before the first call; from absent the first
\* call returned saved: true and the second saved: false.
C2_ToggleTwiceRestores ==
    \A p \in Procs :
        (/\ pc[p] = "done"
         /\ chain[p].kind = "call"
         /\ clean[p]
         /\ ~Infra(out[p])
         /\ HasPair(arg[p])
         /\ \E c \in carTable : c.id = arg[p].carId)
        => /\ out[p].kind = "return"
           /\ chain[p].out.kind = "return"
           /\ (saved[PairOf(arg[p])] > 0) = (chain[p].before > 0)
           /\ chain[p].before = 0 =>
                 /\ chain[p].out.success /\ chain[p].out.saved
                 /\ out[p].success /\ ~out[p].saved

\* C2 witness: save then unsave, back to absent, while the other request wrote
\* another pair.
C2_Witness ==
    \E p, q \in Procs :
        /\ p # q
        /\ pc[p] = "done" /\ chain[p].kind = "call" /\ clean[p]
        /\ chain[p].before = 0 /\ chain[p].out = Added /\ out[p] = Removed
        /\ saved[PairOf(arg[p])] = 0
        /\ pc[q] = "done" /\ out[q] = Added

\* C3: toggleSavedCar by a session with a user record for a carId that matches
\* no car writes no row and issues no invalidation, and (when no collaborator
\* fails) returns { success: false, error: "Car not found" }.
C3_MissingCarIsSoftFailure ==
    \A p \in Procs :
        (/\ pc[p] # "idle"
         /\ HasPair(arg[p])
         /\ ~\E c \in carTable : c.id = arg[p].carId)
        => /\ ~wrote[p]
           /\ inval[p] = 0
           /\ (pc[p] = "done" /\ ~Infra(out[p])) =>
                 out[p] = [kind |-> "return", success |-> FALSE,
                           error |-> "Car not found"]

\* C3 witness: such a call has returned, with a row of another car's pair in the table.
C3_Witness ==
    \E p \in Procs :
        /\ pc[p] = "done" /\ HasPair(arg[p]) /\ arg[p].carId = "car_x"
        /\ out[p].kind = "return" /\ ~out[p].success
        /\ \E k \in Pairs : saved[k] = 1

\* C4: toggleSavedCar with no session, or with a session that has no user record,
\* never returns an envelope and never writes; once auth() has answered with no
\* userId it throws "Error toggling saved car:Unauthorized", and once the user
\* lookup has answered with no record it throws
\* "Error toggling saved car:User not found".
C4_UnauthorizedThrows ==
    \A p \in Procs :
        (pc[p] # "idle" /\ ~HasPair(arg[p]))
        => /\ ~wrote[p]
           /\ inval[p] = 0
           /\ pc[p] = "done" =>
                 /\ out[p].kind = "throw"
                 /\ ~Infra(out[p]) =>
                       out[p].message =
                          IF arg[p].ident = NoIdent
                          THEN "Error toggling saved car:Unauthorized"
                          ELSE "Error toggling saved car:User not found"

\* C4 witness: one call ended with each of the two errors.
C4_Witness ==
    \E p, q \in Procs :
        /\ pc[p] = "done" /\ arg[p].ident = NoIdent
        /\ out[p].kind = "throw" /\ out[p].cause = "Unauthorized"
        /\ pc[q] = "done" /\ arg[q].ident = "clerk_ghost"
        /\ out[q].kind = "throw" /\ out[q].cause = "User not found"

\* C11: revalidatePath("/saved-cars") is issued by toggleSavedCar exactly when its
\* write succeeded: a call issues it at most once and only after its own insert
\* or delete of the row has completed; a call that has returned success: true
\* has issued it once; a call that has thrown or returned success: false has
\* issued none.
C11_InvalidationIffMutation ==
    \A p \in Procs :
        /\ inval[p] \in {0, 1}
        /\ inval[p] = 1 => wrote[p] /\ pc[p] = "done"
        /\ pc[p] = "done" =>
              /\ (inval[p] = 1) = (out[p].kind = "return" /\ out[p].success)
              /\ (inval[p] = 1) = wrote[p]

\* C11 witness: one call deleted the row and returned with its invalidation
\* issued, while the other's delete of the same row failed and it threw with none.
C11_Witness ==
    \E p, q \in Procs :
        /\ p # q
        /\ pc[p] = "done" /\ out[p] = Removed /\ wrote[p] /\ inval[p] = 1
        /\ pc[q] = "done" /\ out[q].kind = "throw" /\ out[q].cause = DeleteMissing
        /\ ~wrote[q] /\ inval[q] = 0
        /\ PairOf(arg[p]) = PairOf(arg[q])

\* Both requests are about the same (user, car) pair.
SamePair(p, q) ==
    /\ p # q
    /\ HasPair(arg[p]) /\ HasPair(arg[q])
    /\ PairOf(arg[p]) = PairOf(arg[q])

\* Request p's current call found the pair absent and its insert has landed.
Inserted(p) == pc[p] = "created" \/ (pc[p] = "done" /\ out[p] = Added)

\* C12: the existence check and the insert of toggleSavedCar are separate steps.
\* When two requests for the same (user, car) have both found the pair absent,
\* the first insert lands and leaves the other request's insert pending; that
\* second insert, attempted while the first one's row is there, is rejected: the
\* call ends by throwing (with the uniqueness error behind the prefix unless the
\* database was down), writes nothing, and the pair keeps exactly one row; the
\* call whose insert landed returns { success: true, saved: true }.
C12_RaceLoserThrows ==
    [][\A p, q \in Procs :
         /\ (/\ SamePair(p, q)
             /\ pc[p] = "create" /\ pc[q] = "create"
             /\ pc'[p] # "create" /\ out'[p].kind # "throw")
            => /\ pc'[p] = "created" /\ pc'[q] = "create"
               /\ saved[PairOf(arg[p])] = 0
               /\ saved'[PairOf(arg[p])] = 1
         /\ (/\ SamePair(p, q)
             /\ Inserted(p) /\ saved[PairOf(arg[p])] = 1
             /\ pc[q] = "create" /\ pc'[q] # "create")
            => /\ pc'[q] = "done"
               /\ out'[q].kind = "throw"
               /\ out'[q].cause # DbDown =>
                     out'[q].message = "Error toggling saved car:" \o UniqueFailed
               /\ ~wrote'[q] /\ inval'[q] = 0
               /\ saved'[PairOf(arg[q])] = 1
         /\ (pc[p] = "created" /\ pc'[p] # "created")
            => /\ pc'[p] = "done"
               /\ out'[p] = [kind |-> "return", success |-> TRUE, saved |-> TRUE,
                             message |-> "Car added to favorites"]]_vars

\* C12 witness: both calls began with the pair absent, one returned
\* { success: true, saved: true } with its invalidation issued, the other threw
\* the prefixed uniqueness error without writing, and the pair has one row.
C12_Witness ==
    \E p, q \in Procs :
        /\ SamePair(p, q)
        /\ before[p] = 0 /\ before[q] = 0
        /\ pc[p] = "done" /\ out[p] = Added /\ wrote[p] /\ inval[p] = 1
        /\ pc[q] = "done" /\ out[q].kind = "throw"
        /\ out[q].message = ErrorPrefix \o UniqueFailed
        /\ ~wrote[q] /\ inval[q] = 0
        /\ saved[PairOf(arg[q])] = 1


-----------------------------------------------------------------------------
(* Properties of the retrieval functions (SpecRead) *)

\* The parameters of the getCars call that resp answers.
RespParams == Params(resp.call.q)

\* C5: getCars never signals failure: every answer has success: true, and when
\* an awaited call raised the answer is { success: true, data: [],
\* pagination: { total: 0, page, limit, pages: 0 } }.
C5_GetCarsFailsSoft ==
    (resp.fn = "getCars" /\ resp.at = "done") =>
        /\ resp.result.success = TRUE
        /\ resp.raised # "none" =>
              resp.result =
                 [success |-> TRUE, data |-> <<>>,
                  pagination |-> [total |-> 0, page |-> RespParams.page,
                                  limit |-> RespParams.limit, pages |-> 0]]

\* C5 witness: the count query raised in a live call that asked for page 2.
C5_Witness ==
    /\ resp.fn = "getCars" /\ resp.at = "done" /\ resp.mode = "live"
    /\ resp.raised = "count" /\ resp.result.pagination.page = 2
    /\ \E c \in carTable : c.status = "AVAILABLE"

\* C6: getCarFilters never signals failure: in demo mode, or when a query raised,
\* the answer is success: true with the fixed vocabulary, the same in both cases;
\* otherwise it is success: true with the distinct values and the price range of
\* the AVAILABLE cars (0 and 100000 when there is none).
C6_GetCarFiltersFailsSoft ==
    (resp.fn = "getCarFilters" /\ resp.at = "done") =>
        LET avail == {c \in carTable : c.status = "AVAILABLE"}
            d == resp.result.data
            Range(f) == {f[i] : i \in 1..Len(f)}
        IN  /\ resp.result.success = TRUE
            /\ (resp.mode = "demo" \/ resp.raised # "none") =>
                  d = [makes |-> <<"Hyundai", "Honda", "BMW", "Tata", "Mahindra", "Ford">>,
                       bodyTypes |-> <<"SUV", "Sedan", "Hatchback", "Convertible">>,
                       fuelTypes |-> <<"Gasoline", "Diesel", "Electric", "Hybrid">>,
                       transmissions |-> <<"Automatic", "Manual">>,
                       priceRange |-> [min |-> 0, max |-> 100000]]
            /\ (resp.mode = "live" /\ resp.raised = "none") =>
                  /\ Range(d.makes) = {c.make : c \in avail}
                  /\ Range(d.bodyTypes) = {c.bodyType : c \in avail}
                  /\ Range(d.fuelTypes) = {c.fuelType : c \in avail}
                  /\ Range(d.transmissions) = {c.transmission : c \in avail}
                  /\ Len(d.makes) = Cardinality({c.make : c \in avail})
                  /\ IF avail = {} THEN d.priceRange = [min |-> 0, max |-> 100000]
                     ELSE /\ \A c \in avail : d.priceRange.min <= c.price
                                             /\ c.price <= d.priceRange.max
                          /\ \E c \in avail : c.price = d.priceRange.min
                          /\ \E c \in avail : c.price = d.priceRange.max

\* C6 witness: a live call in which the price aggregation raised.
C6_Witness ==
    /\ resp.fn = "getCarFilters" /\ resp.at = "done" /\ resp.mode = "live"
    /\ resp.raised = "aggregate"
    /\ resp.result.data.priceRange.max = 100000
    /\ \E c \in carTable : c.status = "AVAILABLE"

\* C7 (the claim, for live calls): with maxPrice unset or the sentinel no upper
\* price bound is applied; with a finite maxPrice, 0 included, every returned car
\* has price <= maxPrice and price >= minPrice (0 when unset).
C7_PriceBounds ==
    (resp.fn = "getCars" /\ resp.mode = "live" /\ resp.source = "db") =>
        LET q == resp.call.q
            lo == IF IsPlain(q.minPrice) THEN q.minPrice.v ELSE 0
            data == resp.result.data
        IN  /\ q.maxPrice \in {Undefined, MAX_SAFE_INTEGER} =>
                  resp.result.pagination.total =
                     Cardinality({c \in carTable :
                                    Where([RespParams EXCEPT !.maxPrice = Undefined], c)})
            /\ IsPlain(q.maxPrice) =>
                  \A i \in 1..Len(data) :
                      data[i].price <= q.maxPrice.v /\ data[i].price >= lo

\* C8 (the claim): in live mode, in demo mode and on the error path,
\* pagination.total is never negative and, when limit > 0, pagination.pages is
\* the ceiling of total / limit.
C8_PagesIsCeiling ==
    (resp.fn = "getCars" /\ resp.at = "done") =>
        LET g == resp.result.pagination
        IN  /\ g.total >= 0
            /\ g.limit > 0 =>
                  /\ g.pages * g.limit >= g.total
                  /\ g.pages >= 0
                  /\ g.pages > 0 => (g.pages - 1) * g.limit < g.total

\* C9: the cars of a live getCars answer are ordered by the sort key: "priceAsc"
\* non-decreasing price, "priceDesc" non-increasing price, anything else
\* (unset, "newest", another word) non-increasing creation time.
C9_SortOrder ==
    (resp.fn = "getCars" /\ resp.at = "done" /\ resp.mode = "live") =>
        LET data == resp.result.data
            k == resp.call.q.sortBy
        IN  \A i, j \in 1..Len(data) :
                i < j =>
                    IF k = "priceAsc" THEN data[i].price <= data[j].price
                    ELSE IF k = "priceDesc" THEN data[i].price >= data[j].price
                    ELSE data[i].createdAt >= data[j].createdAt

\* C9 witness: a live priceAsc answer with two cars of different prices, the
\* cheaper one created later.
C9_Witness ==
    /\ resp.fn = "getCars" /\ resp.at = "done" /\ resp.mode = "live"
    /\ resp.call.q.sortBy = "priceAsc"
    /\ Len(resp.result.data) >= 2
    /\ resp.result.data[1].price < resp.result.data[2].price
    /\ resp.result.data[1].createdAt > resp.result.data[2].createdAt

\* C10 (the claim): in demo mode every retrieval function answers from the fixture
\* without calling the database or the authentication provider, and
\* toggleSavedCar writes no row.
C10_DemoModeIsolated ==
    [][demoMode =>
          /\ saved' = saved
          /\ resp'.fn \in {"getCarFilters", "getCars", "getCarById", "getSavedCars"} =>
                /\ resp'.touched = {}
                /\ (resp'.at = "done" /\ resp'.raised = "none") =>
                      resp'.source = "fixture"]_vars

=============================================================================
